---- MODULE Spec2Model ----
(***************************************************************************)
(* A model of planet_python.py: a client of Planet's REST API.             *)
(*                                                                         *)
(* The module's public functions are the entry points of the model: one    *)
(* behaviour is one call of                                                *)
(*   planet_download_clip   place_order -> check_for_success ->            *)
(*                          download_order, inside try/except              *)
(*   check_for_success      a direct call, with any num_loops              *)
(*   download_order         a direct call, with overwrite False or True,   *)
(*                          optionally followed by further calls           *)
(*   planet_search          quick-search POST, fetch_page / handle_page    *)
(*   get_point_square       the pure geometry helper                       *)
(* The server is the environment: every HTTP response is a nondeterministic*)
(* choice made when the request is issued.                                 *)
(***************************************************************************)
EXTENDS Integers, Sequences, FiniteSets, TLC

----------------------------------------------------------------------------
(* Bounds of the model *)

\* largest num_loops passed to a direct call of check_for_success
MaxNumLoops == 3
\* longest result list the order response carries
MaxResults == 2
\* number of calls of download_order made one after the other
MaxRuns == 2
\* longest chain of search result pages
MaxPages == 3
\* most features on one search page
MaxFeatures == 2
\* coordinates of get_point_square range over -MaxCoord..MaxCoord
MaxCoord == 2
\* sizes of get_point_square range over 1..MaxSize
MaxSize == 2

(* Program constants *)

\* check_for_success(order_url, auth, num_loops=100)
DefaultNumLoops == 100
\* time.sleep(30)
PollSleep == 30
\* @retry(wait_exponential_multiplier=1000, ...)
wait_exponential_multiplier == 1000
\* @retry(..., wait_exponential_max=10000)
wait_exponential_max == 10000
\* while res_code == 429
RateLimited == 429

----------------------------------------------------------------------------
VARIABLES
    prog,        \* the function called
    pc,          \* position in the running function
    outcome,     \* "running", "returned" (normal return), "raised" (exception escaped)
    \* ---- place_order / check_for_success
    post,        \* the order POST: "none", "ok", "rejected"
    num_loops,   \* argument of check_for_success
    count,       \* local of check_for_success
    state,       \* response['state'] of the last poll, "none" before the first
    polls,       \* number of status GETs issued by the running check_for_success
    slept,       \* seconds slept by the running check_for_success
    checked,     \* check_for_success has returned normally
    \* ---- download_order
    overwrite,   \* argument of download_order
    results,     \* response['_links']['results'] of the order: sequence of names
    files,       \* the file system: path -> content
    files0,      \* the file system when the current attempt listed the results
    idx,         \* position of the for loop over the results
    fetched,     \* indices whose location was requested in the current attempt
    dl_started,  \* download_order has issued a request
    retry_wait,  \* milliseconds the retry decorator slept before the current attempt
    run,         \* number of the current call of download_order
    \* ---- the except block of planet_download_clip
    error,       \* the exception raised, "none" when there is none
    \* ---- planet_search
    item_type,   \* argument of planet_search
    pages,       \* the server's chain of result pages: pages[i] = number of features
    cur,         \* search_url of the running fetch_page (index in the chain)
    page,        \* local of fetch_page: the body of the first GET of a pair
    res_code,    \* local of fetch_page: the status of the second GET of a pair
    store_list,  \* the rows appended by handle_page
    handled,     \* the pages passed to handle_page, in order
    csv,         \* the DataFrame written by to_csv
    \* ---- get_point_square
    lat, lon, size,
    square       \* the returned geojson dictionary

vars == << prog, pc, outcome, post, num_loops, count, state, polls, slept,
           checked, overwrite, results, files, files0, idx, fetched,
           dl_started, retry_wait, run, error, item_type, pages, cur, page,
           res_code, store_list, handled, csv, lat, lon, size, square >>

orderVars == << post, num_loops, count, state, polls, slept, checked >>
dlVars == << overwrite, results, files0, idx, fetched, dl_started, retry_wait, run >>
searchVars == << item_type, pages, cur, page, res_code, store_list, handled, csv >>
squareVars == << lat, lon, size, square >>

----------------------------------------------------------------------------
(* Inputs and the environment *)

Progs == { "planet_download_clip", "check_for_success", "download_order",
           "planet_search", "get_point_square" }

\* the states an order reports; all but three leave check_for_success polling
OrderStates == { "queued", "running", "success", "partial", "failed", "cancelled" }

\* arguments of planet_download_clip / download_order
save_dir == "save_dir"
feature_name == "feature_name"

\* result names the server lists: <<directory part, last component>>
Names == { <<"order/a", "scene.tif">>, <<"order/b", "scene.tif">>,
           <<"order/a", "meta.xml">> }

ResultLists == UNION { [1..k -> Names] : k \in 0..MaxResults }

\* os.path.basename(n)
Basename(n) == n[2]

\* pathlib.Path(os.path.join(save_dir + "/" + feature_name + "/", os.path.basename(n)))
ResultPath(n) == << save_dir, feature_name, Basename(n) >>

\* save_dir + '/errors/' + feature_name + '_error_message.txt'
ErrorPath == << save_dir, "errors", << feature_name, "_error_message.txt" >> >>

Paths == { ResultPath(n) : n \in Names } \cup { ErrorPath }

\* the content of a path: no file, a file from before the call, or what was written
Absent == [ kind |-> "absent", of |-> << >> ]
Old == [ kind |-> "old", of |-> << >> ]

\* path.exists()
Exists(fs, path) == fs[path] # Absent

\* what open(path, 'wb').write(r.content) leaves at the path of result n
Content(n) == [ kind |-> "content", of |-> n ]

\* what text_file.write(str(error)) leaves in the error file
ErrorString(e) == [ kind |-> "str(error)", of |-> << e >> ]

----------------------------------------------------------------------------
(* place_order, check_for_success and the try/except of planet_download_clip *)

\* an exception is raised: planet_download_clip catches it, a direct call lets it escape
Raise(e) ==
    /\ error' = e
    /\ IF prog = "planet_download_clip"
       THEN pc' = "except" /\ outcome' = outcome
       ELSE pc' = "done" /\ outcome' = "raised"

\* download_order(...) is called: the decorator starts its first attempt
DownloadCall(ow) ==
    /\ overwrite' = ow
    /\ idx' = 0
    /\ fetched' = << >>
    /\ files0' = files
    /\ retry_wait' = 0
    /\ pc' = "dl_list"

PostNeverRaises(ok) == FALSE
\* if not response.ok: raise Exception(response.content)
PostRaises(ok) == ~ok

\* place_order: the POST and its test
PlaceOrder(ok) ==
    /\ pc = "place_order"
    /\ post' = IF ok THEN "ok" ELSE "rejected"
    /\ IF PostRaises(ok)
       THEN Raise("response.content")
       ELSE pc' = "poll" /\ UNCHANGED << error, outcome >>
    /\ UNCHANGED << prog, num_loops, count, state, polls, slept, checked, files >>
    /\ UNCHANGED << dlVars, searchVars, squareVars >>

LoopGuardOffByOne(c, n) == c <= n
\* while(count < num_loops)
LoopGuard(c, n) == c < n

PollNeverRaises(s) == FALSE
\* if state == 'failed': raise Exception(response)
PollRaises(s) == s = "failed"

\* success_states = ['success', 'partial']
success_states == { "success", "partial" }

\* time.sleep(30)
Sleep30(t) == t + PollSleep

\* one iteration of the while loop of check_for_success
Poll(s) ==
    /\ pc = "poll"
    /\ LoopGuard(count, num_loops)
    /\ count' = count + 1
    /\ polls' = polls + 1
    /\ state' = s
    /\ IF PollRaises(s)
       THEN Raise("order_failed") /\ slept' = slept
       ELSE IF s \in success_states
            THEN pc' = "check_ret" /\ slept' = slept /\ UNCHANGED << error, outcome >>
            ELSE pc' = "poll" /\ slept' = Sleep30(slept) /\ UNCHANGED << error, outcome >>
    /\ UNCHANGED << prog, post, num_loops, checked, files >>
    /\ UNCHANGED << dlVars, searchVars, squareVars >>

\* the while condition is false: the loop ends without a break
PollExhausted ==
    /\ pc = "poll"
    /\ ~LoopGuard(count, num_loops)
    /\ pc' = "check_ret"
    /\ UNCHANGED << prog, outcome, orderVars, dlVars, files, error, searchVars, squareVars >>

\* check_for_success returns None; planet_download_clip goes on to download_order
CheckReturn ==
    /\ pc = "check_ret"
    /\ checked' = TRUE
    /\ count' = 0 /\ polls' = 0 /\ slept' = 0
    /\ IF prog = "planet_download_clip"
       THEN DownloadCall(FALSE) /\ UNCHANGED << outcome, dl_started, run, results >>
       ELSE pc' = "done" /\ outcome' = "returned" /\ UNCHANGED dlVars
    /\ UNCHANGED << prog, post, num_loops, state, files, error, searchVars, squareVars >>

\* except Exception as error: write str(error) to the error file, then pass
Except ==
    /\ pc = "except"
    /\ files' = [files EXCEPT ![ErrorPath] = ErrorString(error)]
    /\ pc' = "done"
    /\ outcome' = "returned"
    /\ UNCHANGED << prog, orderVars, dlVars, error, searchVars, squareVars >>

----------------------------------------------------------------------------
(* download_order under @retry *)

Min(a, b) == IF a < b THEN a ELSE b

\* retrying's exponential_sleep: multiplier * 2^attempt, at most wait_exponential_max
NextWait(w) ==
    IF w = 0 THEN 2 * wait_exponential_multiplier
    ELSE Min(2 * w, wait_exponential_max)

\* the decorator catches the exception, sleeps and calls the function again;
\* no stop_max_attempt_number or stop_max_delay is given
Retry ==
    /\ retry_wait' = NextWait(retry_wait)
    /\ pc' = "dl_list"

\* r = requests.get(order_url); results = response['_links']['results']
ListResults(has_links) ==
    /\ pc = "dl_list"
    /\ dl_started' = TRUE
    /\ fetched' = << >>
    /\ files0' = files
    /\ IF has_links
       THEN pc' = "dl_loop" /\ idx' = 1 /\ retry_wait' = retry_wait
       ELSE Retry /\ idx' = 0
    /\ UNCHANGED << prog, outcome, orderVars, overwrite, results, files, run, error >>
    /\ UNCHANGED << searchVars, squareVars >>

AlwaysDownload(ow, exists) == TRUE
\* if overwrite or not path.exists()
ShouldDownload(ow, exists) == ow \/ ~exists

\* the if branch of the for loop: GET the location, write the file
FetchResult(ok) ==
    /\ pc = "dl_loop"
    /\ idx <= Len(results)
    /\ ShouldDownload(overwrite, Exists(files, ResultPath(results[idx])))
    /\ fetched' = Append(fetched, idx)
    /\ IF ok
       THEN /\ files' = [files EXCEPT ![ResultPath(results[idx])] = Content(results[idx])]
            /\ idx' = idx + 1
            /\ UNCHANGED << pc, retry_wait >>
       ELSE Retry /\ UNCHANGED << files, idx >>
    /\ UNCHANGED << prog, outcome, orderVars, overwrite, results, files0, dl_started, run >>
    /\ UNCHANGED << error, searchVars, squareVars >>

\* the else branch of the for loop
SkipResult ==
    /\ pc = "dl_loop"
    /\ idx <= Len(results)
    /\ ~ShouldDownload(overwrite, Exists(files, ResultPath(results[idx])))
    /\ idx' = idx + 1
    /\ UNCHANGED << prog, pc, outcome, orderVars, overwrite, results, files, files0 >>
    /\ UNCHANGED << fetched, dl_started, retry_wait, run, error, searchVars, squareVars >>

\* the for loop is exhausted: download_order returns
DownloadReturn ==
    /\ pc = "dl_loop"
    /\ idx > Len(results)
    /\ pc' = "done"
    /\ outcome' = "returned"
    /\ UNCHANGED << prog, orderVars, dlVars, files, error, searchVars, squareVars >>

\* the caller runs download_order again over the same order
DownloadAgain(ow) ==
    /\ prog = "download_order"
    /\ pc = "done"
    /\ run < MaxRuns
    /\ run' = run + 1
    /\ outcome' = "running"
    /\ DownloadCall(ow)
    /\ UNCHANGED << prog, orderVars, results, files, dl_started, error >>
    /\ UNCHANGED << searchVars, squareVars >>

----------------------------------------------------------------------------
(* planet_search: handle_page and fetch_page *)

ItemTypes == { "PSScene4Band", "PSOrthoTile", "REOrthoTile" }

Base9 == << "id", "acquired", "cloud_cover", "origin_x", "origin_y", "view_angle",
            "sun_azimuth", "sun_elevation", "anomalous_pixels" >>

\* the module-level dictionary cols
cols ==
    [ t \in ItemTypes |->
        IF t = "PSScene4Band" THEN Base9 ELSE Base9 \o << "usable_data" >> ]

\* the properties handle_page reads from an item, per item_type
Props(t) ==
    IF t = "PSScene4Band" THEN Base9
    ELSE IF t = "PSOrthoTile" THEN Base9 \o << "usable_data" >>
    ELSE Base9 \o << "usable_data" >>

\* lst: the value of each property of feature f
Row(t, f) == [ k \in 1..Len(Props(t)) |-> << Props(t)[k], f >> ]

\* the chains of pages the server can hold: at least the page of '_first'
PageChains == UNION { [1..n -> 0..MaxFeatures] : n \in 1..MaxPages }

\* page["features"] of page i of the chain: feature j of page i is <<i, j>>
Features(ch, i) == [ j \in 1..ch[i] |-> << i, j >> ]

\* page["_links"].get("_next"): 0 stands for None
NextLink(ch, i) == IF i < Len(ch) THEN i + 1 ELSE 0

\* what the for loop of handle_page appends for page i
PageRows(t, ch, i) == [ j \in 1..ch[i] |-> Row(t, Features(ch, i)[j]) ]

\* fetch_page has not fetched anything yet; no DataFrame has been written yet
NoPage == [ url |-> 0, code |-> 0 ]
NoCsv == [ written |-> FALSE, columns |-> << >>, rows |-> << >> ]

\* res = client.ses.post(...); link_first_page = geojson['_links']['_first']
SearchPost ==
    /\ pc = "search_post"
    /\ cur' = 1
    /\ pc' = "get_body"
    /\ UNCHANGED << prog, outcome, orderVars, dlVars, files, error, squareVars >>
    /\ UNCHANGED << item_type, pages, page, res_code, store_list, handled, csv >>

\* page = session.get(search_url).json(), the body being JSON
GetBody(code) ==
    /\ pc = "get_body"
    /\ page' = [ url |-> cur, code |-> code ]
    /\ pc' = "get_status"
    /\ UNCHANGED << prog, outcome, orderVars, dlVars, files, error, squareVars >>
    /\ UNCHANGED << item_type, pages, cur, res_code, store_list, handled, csv >>

\* page = session.get(search_url).json(), the body of a 429 answer not being JSON
GetBodyNotJson ==
    /\ pc = "get_body"
    /\ Raise("JSONDecodeError")
    /\ UNCHANGED << prog, orderVars, dlVars, files, searchVars, squareVars >>

\* while res_code == 429
RetryFetch(code) == code = RateLimited

\* res_code = session.get(search_url).status_code, and the test of the while loop;
\* on 429: time.sleep(1) and the same two requests again
GetStatus(code) ==
    /\ pc = "get_status"
    /\ res_code' = code
    /\ pc' = IF RetryFetch(code) THEN "get_body" ELSE "handle"
    /\ UNCHANGED << prog, outcome, orderVars, dlVars, files, error, squareVars >>
    /\ UNCHANGED << item_type, pages, cur, page, store_list, handled, csv >>

\* handle_page raises before it appends anything: the body of a 429 answer has no
\* "features" (KeyError); with an unknown item_type lst is unbound at the first
\* item (UnboundLocalError)
HandleRaises ==
    \/ page.code = RateLimited
    \/ item_type \notin ItemTypes /\ pages[page.url] > 0

HandlePageRaises ==
    /\ pc = "handle"
    /\ HandleRaises
    /\ Raise("handle_page")
    /\ UNCHANGED << prog, orderVars, dlVars, files, searchVars, squareVars >>

AppendRowsInFront(lst, rows) == rows \o lst
\* empty_list.append(lst) for every item, in order
AppendRows(lst, rows) == lst \o rows

\* handle_page(page, item_type, store_list); next_url; the recursive call
HandlePage ==
    /\ pc = "handle"
    /\ ~HandleRaises
    /\ store_list' = AppendRows(store_list, PageRows(item_type, pages, page.url))
    /\ handled' = Append(handled, page.url)
    /\ IF NextLink(pages, page.url) # 0
       THEN cur' = NextLink(pages, page.url) /\ pc' = "get_body"
       ELSE cur' = cur /\ pc' = "save"
    /\ UNCHANGED << prog, outcome, orderVars, dlVars, files, error, squareVars >>
    /\ UNCHANGED << item_type, pages, page, res_code, csv >>

\* pd.DataFrame(store_list, columns=cols[item_type]) raises for an unknown
\* item_type (KeyError) and for a row of another width (ValueError)
FrameRaises ==
    \/ item_type \notin ItemTypes
    \/ \E k \in 1..Len(store_list) : Len(store_list[k]) # Len(cols[item_type])

SaveCsvRaises ==
    /\ pc = "save"
    /\ FrameRaises
    /\ Raise("DataFrame")
    /\ UNCHANGED << prog, orderVars, dlVars, files, searchVars, squareVars >>

\* df = pd.DataFrame(...); df.to_csv(...)
SaveCsv ==
    /\ pc = "save"
    /\ ~FrameRaises
    /\ csv' = [ written |-> TRUE, columns |-> cols[item_type], rows |-> store_list ]
    /\ pc' = "done"
    /\ outcome' = "returned"
    /\ UNCHANGED << prog, orderVars, dlVars, files, error, squareVars >>
    /\ UNCHANGED << item_type, pages, cur, page, res_code, store_list, handled >>

----------------------------------------------------------------------------
(* get_point_square *)

\* coordinates are in units of a fixed grid step
get_point_square(la, lo, sz) ==
    [ type |-> "Polygon",
      coordinates |-> << << << lo, la >>,
                            << lo + sz, la >>,
                            << lo + sz, la - sz >>,
                            << lo, la - sz >>,
                            << lo, la >> >> >> ]

\* nothing has been returned yet
NoSquare == [ type |-> "none", coordinates |-> << >> ]

GetPointSquare ==
    /\ pc = "square"
    /\ square' = get_point_square(lat, lon, size)
    /\ pc' = "done"
    /\ outcome' = "returned"
    /\ UNCHANGED << prog, orderVars, dlVars, files, error, searchVars, lat, lon, size >>

----------------------------------------------------------------------------
(* The specification *)

\* the first statement of each entry point
Entry(p) ==
    IF p = "planet_download_clip" THEN "place_order"
    ELSE IF p = "check_for_success" THEN "poll"
    ELSE IF p = "download_order" THEN "dl_list"
    ELSE IF p = "planet_search" THEN "search_post"
    ELSE "square"

Ordering(p) == p \in { "planet_download_clip", "download_order" }

Init ==
    /\ prog \in Progs
    /\ pc = Entry(prog)
    /\ outcome = "running"
    /\ post = "none"
    /\ num_loops \in (IF prog = "check_for_success" THEN 0..MaxNumLoops
                      ELSE { DefaultNumLoops })
    /\ count = 0
    /\ state = "none"
    /\ polls = 0
    /\ slept = 0
    /\ checked = FALSE
    /\ overwrite \in (IF prog = "download_order" THEN BOOLEAN ELSE { FALSE })
    /\ results \in (IF Ordering(prog) THEN ResultLists ELSE { << >> })
    /\ files \in (IF Ordering(prog)
                  THEN { f \in [Paths -> { Absent, Old }] : f[ErrorPath] = Absent }
                  ELSE { [ q \in Paths |-> Absent ] })
    /\ files0 = files
    /\ idx = 0
    /\ fetched = << >>
    /\ dl_started = FALSE
    /\ retry_wait = 0
    /\ run = IF prog = "download_order" THEN 1 ELSE 0
    /\ error = "none"
    /\ item_type \in (IF prog = "planet_search" THEN ItemTypes \cup { "Other" }
                      ELSE { "PSScene4Band" })
    /\ pages \in (IF prog = "planet_search" THEN PageChains ELSE { << 0 >> })
    /\ cur = 0
    /\ page = NoPage
    /\ res_code = 0
    /\ store_list = << >>
    /\ handled = << >>
    /\ csv = NoCsv
    /\ lat \in (IF prog = "get_point_square" THEN -MaxCoord..MaxCoord ELSE { 0 })
    /\ lon \in (IF prog = "get_point_square" THEN -MaxCoord..MaxCoord ELSE { 0 })
    /\ size \in (IF prog = "get_point_square" THEN 1..MaxSize ELSE { 1 })
    /\ square = NoSquare

Next ==
    \/ \E ok \in BOOLEAN : PlaceOrder(ok)
    \/ \E s \in OrderStates : Poll(s)
    \/ PollExhausted
    \/ CheckReturn
    \/ Except
    \/ \E has_links \in BOOLEAN : ListResults(has_links)
    \/ \E ok \in BOOLEAN : FetchResult(ok)
    \/ SkipResult
    \/ DownloadReturn
    \/ \E ow \in BOOLEAN : DownloadAgain(ow)
    \/ SearchPost
    \/ \E code \in { 200, RateLimited } : GetBody(code)
    \/ GetBodyNotJson
    \/ \E code \in { 200, RateLimited } : GetStatus(code)
    \/ HandlePageRaises
    \/ HandlePage
    \/ SaveCsvRaises
    \/ SaveCsv
    \/ GetPointSquare

Spec == Init /\ [][Next]_vars

\* the interpreter keeps executing the running function: a step that can be
\* taken is eventually taken
FairSpec == Spec /\ WF_vars(Next)

----------------------------------------------------------------------------
(* Properties *)

Clip == prog = "planet_download_clip"
Range(f) == { f[k] : k \in DOMAIN f }
TerminalStates == success_states \cup { "failed" }

\* C1: in planet_download_clip, download_order is invoked only after some poll
\* of check_for_success returned the state 'success' or 'partial'.
C1_DownloadOnlyAfterSuccess ==
    (Clip /\ (pc \in { "dl_list", "dl_loop" } \/ dl_started)) => state \in success_states

\* C2: the lifecycle of planet_download_clip is ordered submit -> poll -> download:
\* a status GET is issued only after the POST returned an OK response, a request
\* of download_order only after check_for_success returned, and when the POST
\* response is not OK place_order raises and neither a poll nor a download
\* request is made.
C2_LifecycleOrder ==
    Clip =>
        /\ (pc \in { "poll", "check_ret" } \/ state # "none" \/ polls > 0) => post = "ok"
        /\ (pc \in { "dl_list", "dl_loop" } \/ dl_started) => (checked /\ post = "ok")
        /\ post = "rejected" =>
              /\ error = "response.content"
              /\ pc \in { "except", "done" }
              /\ state = "none" /\ polls = 0 /\ ~checked /\ ~dl_started

C2_Witness ==
    /\ Clip /\ pc = "done" /\ post = "ok" /\ checked /\ dl_started
    /\ state = "success" /\ Len(fetched) > 0

\* C3: when a poll observes 'failed', check_for_success raises at once (no
\* further poll), download_order is never called, and planet_download_clip
\* writes the error text to the error file and returns normally.
C3_FailedOrder ==
    (Clip /\ state = "failed") =>
        /\ pc \in { "except", "done" }
        /\ error = "order_failed"
        /\ ~checked /\ ~dl_started
        /\ pc = "done" =>
              /\ outcome = "returned"
              /\ files[ErrorPath] = ErrorString("order_failed")
              /\ \A n \in Names : files[ResultPath(n)] = files0[ResultPath(n)]

C3_Witness ==
    /\ Clip /\ state = "failed" /\ pc = "done" /\ polls > 1
    /\ files[ErrorPath] = ErrorString("order_failed")

\* C4: planet_download_clip terminates under every server behaviour, also when
\* every attempt of download_order raises.
C4_ClipTerminates == Clip ~> (pc = "done")

\* C5: planet_search terminates, also when the server answers 429 to every
\* request for a page.
C5_SearchTerminates == (prog = "planet_search") ~> (pc = "done")

RECURSIVE FeaturesUpTo(_, _)
\* the features of pages 1..n of the chain, in page order then feature order
FeaturesUpTo(ch, n) ==
    IF n = 0 THEN << >> ELSE FeaturesUpTo(ch, n - 1) \o Features(ch, n)

\* C6: for a supported item_type planet_search handles the pages of the chain
\* from '_first' once each and in chain order, stops at the first page without
\* '_next', and store_list (and the CSV) holds one row per feature of those
\* pages, in page order then feature order, each as wide as cols[item_type].
C6_SearchRows ==
    (prog = "planet_search" /\ item_type \in ItemTypes) =>
        LET n == Len(handled)
            expected == FeaturesUpTo(pages, n)
        IN  /\ n <= Len(pages)
            /\ cur <= Len(pages)
            /\ \A k \in 1..n : handled[k] = k
            /\ Len(store_list) = Len(expected)
            /\ \A k \in 1..Len(store_list) :
                  /\ Len(store_list[k]) = Len(cols[item_type])
                  /\ \A c \in 1..Len(store_list[k]) : store_list[k][c][2] = expected[k]
            /\ (pc = "save" \/ csv.written) => n = Len(pages)
            /\ csv.written => (csv.rows = store_list /\ csv.columns = cols[item_type])

C6_Witness ==
    /\ prog = "planet_search" /\ csv.written /\ outcome = "returned"
    /\ Len(pages) >= 2 /\ pages[1] >= 1 /\ pages[2] >= 2
    /\ Len(csv.rows) >= 3

Abs(x) == IF x < 0 THEN -x ELSE x

\* C7: get_point_square(lat, lon, size) returns a closed ring of five [lon, lat]
\* vertices forming a square of side size whose center is the point (lat, lon).
C7_SquareCentred ==
    square.type = "Polygon" =>
        LET ring == square.coordinates[1]
        IN  /\ Len(ring) = 5
            /\ ring[1] = ring[5]
            /\ \A k \in 1..4 :
                  Abs(ring[k][1] - ring[k + 1][1]) + Abs(ring[k][2] - ring[k + 1][2]) = size
            /\ \A k \in 1..5 :
                  /\ 2 * Abs(ring[k][1] - lon) = size
                  /\ 2 * Abs(ring[k][2] - lat) = size

\* C8: check_for_success issues at most num_loops status requests and none after
\* the first poll whose state is 'success', 'partial' or 'failed'; it returns
\* normally on 'success'/'partial', raises on 'failed', and every poll with
\* another state is followed by a 30-second sleep.
C8_BoundedPolling ==
    /\ polls <= num_loops
    /\ pc = "poll" => (state \notin TerminalStates /\ slept = PollSleep * polls)
    /\ pc = "check_ret" =>
          \/ state \in success_states /\ slept = PollSleep * (polls - 1) /\ error = "none"
          \/ /\ state \notin TerminalStates /\ polls = num_loops
             /\ slept = PollSleep * polls
    /\ state \in success_states => (error = "none" /\ pc \notin { "poll", "except" })
    /\ state = "failed" =>
          /\ error = "order_failed" /\ ~checked
          /\ pc \in { "except", "done" }
          /\ prog = "check_for_success" => outcome = "raised"
    /\ (prog = "check_for_success" /\ outcome = "returned") => state # "failed"

C8_Witness ==
    /\ prog = "check_for_success" /\ pc = "check_ret"
    /\ num_loops >= 2 /\ polls = num_loops /\ state = "running"
    /\ slept = PollSleep * num_loops

\* whether a file is at the path of result i when the for loop reaches it
ExistsWhenReached(i) ==
    \/ Exists(files0, ResultPath(results[i]))
    \/ \E j \in 1..(i - 1) : ResultPath(results[j]) = ResultPath(results[i])

\* C9: in one attempt of download_order with overwrite=False a result is fetched
\* and written iff no file is at its target path when it is reached, and files
\* that exist are left unchanged; with overwrite=True every listed result is
\* fetched and written; a second run with overwrite=False fetches nothing.
C9_SkipExisting ==
    (pc = "dl_loop" \/ (pc = "done" /\ dl_started)) =>
        /\ \A i \in 1..(idx - 1) :
              /\ i \in Range(fetched) <=> (overwrite \/ ~ExistsWhenReached(i))
              /\ (i \in Range(fetched) /\ ~overwrite) =>
                    files[ResultPath(results[i])] = Content(results[i])
              /\ overwrite => Exists(files, ResultPath(results[i]))
              /\ (overwrite /\ \A j \in (i + 1)..(idx - 1) :
                                  ResultPath(results[j]) # ResultPath(results[i])) =>
                    files[ResultPath(results[i])] = Content(results[i])
        /\ Range(fetched) \subseteq 1..(idx - 1)
        /\ ~overwrite =>
              \A q \in Paths : Exists(files0, q) => files[q] = files0[q]
        /\ (run >= 2 /\ ~overwrite) => fetched = << >>

C9_Witness ==
    /\ ~overwrite /\ pc = "done" /\ dl_started /\ run = 1
    /\ Len(results) >= 2 /\ Len(fetched) = 1
    /\ \E i \in 1..Len(results) : Exists(files0, ResultPath(results[i]))

\* C10: fetch_page never passes to handle_page a body returned by a 429
\* response: the body handled and the status tested belong to one response.
C10_HandledBodyNotRateLimited ==
    pc = "handle" => (page.code # RateLimited /\ page.code = res_code)

====
